---- MODULE Spec2Model ----
(***************************************************************************)
(* State-machine model of hgt2png (src/hgt2png.cpp, main, lines 67-382):   *)
(* HGT raster -> byte-order swap -> range scan -> rescale -> byte-order    *)
(* swap -> tiled PNG emission.                                             *)
(***************************************************************************)
EXTENDS Integers, Sequences, FiniteSets, TLC

VARIABLES width, height, rows, cols, little, pc, hgt_size, exit_code, err,
          file, raster, minimum, maximum, invalid, i, ub, build,
          row_index, col_index, row_offset, col_offset, tiles, files, writes,
          null_writes

vars == <<width, height, rows, cols, little, pc, hgt_size, exit_code, err,
          file, raster, minimum, maximum, invalid, i, ub, build,
          row_index, col_index, row_offset, col_offset, tiles, files, writes,
          null_writes>>

(* ---------------- bounds of the explored inputs ---------------- *)
MaxDim == 3
MaxDiv == 2
PatLen == 3

(* big-endian byte pairs of the samples the input file is drawn from:      *)
(* -32768 (sentinel), -1, 0, 1, 2                                          *)
SampleBytes == {<<128, 0>>, <<255, 255>>, <<0, 0>>, <<0, 1>>, <<0, 2>>}

(* ---------------- program constants ---------------- *)
SENTINEL == 0 - 32768
MIN_INIT == 32768
MAX_INIT == 0 - 32768
SCALE == 65534
MISSING == 65535
SAMPLE_BYTES == 2

(* ---------------- integer helpers ---------------- *)
Abs(x) == IF x < 0 THEN 0 - x ELSE x

(* C++ integer division and remainder truncate toward zero *)
CDiv(a, b) ==
  IF (a < 0) = (b < 0) THEN Abs(a) \div Abs(b) ELSE 0 - (Abs(a) \div Abs(b))

CMod(a, b) == a - b * CDiv(a, b)

(* reinterpret a 16-bit pattern as std::int16_t *)
ToInt16(u) == IF u >= 32768 THEN u - 65536 ELSE u

(* ---------------- derived quantities of main ---------------- *)
pixel_count == width * height
data_size == pixel_count * SAMPLE_BYTES
subwidth == CDiv(width, cols) + (IF cols > 1 THEN 1 ELSE 0)
subheight == CDiv(height, rows) + (IF rows > 1 THEN 1 ELSE 0)

NoErr == [kind |-> "none", dim |-> "none", value |-> 0, divisor |-> 0]
MkErr(k) == [kind |-> k, dim |-> "none", value |-> 0, divisor |-> 0]

(* ---------------- Byte-order normaliser ---------------- *)
(* SwapPair without the temporary: the first byte is lost *)
SwapPairNoTemp(buf, k) ==
  [buf EXCEPT ![k + 1] = buf[k + 2]]

(* one iteration of the swap loop at 0-based byte index k *)
SwapPair(buf, k) ==
  [buf EXCEPT ![k + 1] = buf[k + 2], ![k + 2] = buf[k + 1]]

RECURSIVE SwapLoop(_, _)
SwapLoop(buf, k) ==
  IF k < Len(buf) THEN SwapLoop(SwapPair(buf, k), k + SAMPLE_BYTES) ELSE buf

Normalize(le, buf) == IF le THEN SwapLoop(buf, 0) ELSE buf

(* the 16-bit pattern the host reads at 0-based byte index k *)
NativeU16(le, buf, k) ==
  IF le THEN buf[k + 1] + 256 * buf[k + 2] ELSE 256 * buf[k + 1] + buf[k + 2]

(* the bytes the host stores for 16-bit pattern u at 0-based byte index k *)
StoreU16(le, buf, k, u) ==
  IF le THEN [buf EXCEPT ![k + 1] = u % 256, ![k + 2] = u \div 256]
        ELSE [buf EXCEPT ![k + 1] = u \div 256, ![k + 2] = u % 256]

(* ---------------- Range scanner ---------------- *)
(* one iteration of the range loop on sample temp *)
ScanSample(r, temp) ==
  IF temp < r.minimum
    THEN IF temp # SENTINEL
           THEN [r EXCEPT !.minimum = temp]
           ELSE [r EXCEPT !.invalid = r.invalid + 1]
    ELSE IF temp > r.maximum
           THEN [r EXCEPT !.maximum = temp]
           ELSE r

RECURSIVE ScanLoop(_, _, _, _)
ScanLoop(le, buf, k, r) ==
  IF k < Len(buf)
    THEN ScanLoop(le, buf, k + SAMPLE_BYTES,
                  ScanSample(r, ToInt16(NativeU16(le, buf, k))))
    ELSE r

ScanInit == [minimum |-> MIN_INIT, maximum |-> MAX_INIT, invalid |-> 0]

(* ---------------- Elevation rescaler ---------------- *)
Wrap16(t) == t % 65536
Saturate16(t) == IF t < 0 THEN 0 ELSE IF t > 65535 THEN 65535 ELSE t

(* static_cast<std::uint16_t>(double): the value is truncated toward zero;  *)
(* the conversion is undefined when the truncated value does not fit or the *)
(* operand is NaN/infinite (division by deltaf = 0).  What is stored then   *)
(* depends on the conversion instruction of the build: "wrap" keeps the low *)
(* 16 bits of a 32-bit signed conversion (invalid operand: 0x80000000),     *)
(* "saturate" clamps to the unsigned range (NaN: 0).                        *)
ConvertU16(num, den) ==
  IF den = 0
    THEN {[u |-> 0, how |-> "wrap", dz |-> TRUE],
          [u |-> IF num > 0 THEN 65535 ELSE 0, how |-> "saturate", dz |-> TRUE]}
  ELSE LET t == CDiv(num, den)
       IN  IF t >= 0 /\ t <= 65535
             THEN {[u |-> t, how |-> "exact", dz |-> FALSE]}
             ELSE {[u |-> Wrap16(t), how |-> "wrap", dz |-> FALSE],
                   [u |-> Saturate16(t), how |-> "saturate", dz |-> FALSE]}

(* possible values stored for signed sample s under the scanned range; how *)
(* records whether the conversion was defined ("exact") or which build's   *)
(* outcome of the undefined conversion it is, dz whether it divided by 0    *)
RescaleSample(s, mn, mx) ==
  IF s = SENTINEL THEN {[u |-> MISSING, how |-> "exact", dz |-> FALSE]}
  ELSE ConvertU16((s - mn) * SCALE, mx - mn)

(* ---------------- input file contents ---------------- *)
RECURSIVE FileOf(_, _)
FileOf(p, n) ==
  IF n = 0 THEN <<>>
  ELSE FileOf(p, n - 1) \o p[((n - 1) % PatLen) + 1]

(* ---------------- Init ---------------- *)
Init ==
  /\ width \in 1..MaxDim
  /\ height \in 1..MaxDim
  /\ rows \in 0..MaxDiv
  /\ cols \in 0..MaxDiv
  /\ little \in BOOLEAN
  /\ pc = "open"
  /\ hgt_size = 0
  /\ exit_code = 0
  /\ err = NoErr
  /\ file = <<>>
  /\ raster = <<>>
  /\ minimum = MIN_INIT
  /\ maximum = MAX_INIT
  /\ invalid = 0
  /\ i = 0
  /\ ub = {}
  /\ build = "unset"
  /\ row_index = 0
  /\ col_index = 0
  /\ row_offset = 0
  /\ col_offset = 0
  /\ tiles = <<>>
  /\ files = {}
  /\ writes = 0
  /\ null_writes = 0

Exit(code, e) ==
  /\ pc' = "exit"
  /\ exit_code' = code
  /\ err' = e

args == <<width, height, rows, cols, little>>
scanv == <<minimum, maximum, invalid>>
loopv == <<row_index, col_index, row_offset, col_offset, tiles, files, writes,
           null_writes>>

(* fopen of the HGT file and FSEEK64/FTELL64 of its size *)
OpenInput ==
  /\ pc = "open"
  /\ \/ /\ Exit(1, MkErr("open_input"))
        /\ UNCHANGED hgt_size
     \/ /\ \E hs \in {data_size, data_size + 1, data_size - SAMPLE_BYTES} :
             hgt_size' = hs
        /\ pc' = "verify_subdiv"
        /\ UNCHANGED <<exit_code, err>>
  /\ UNCHANGED <<args, file, raster, scanv, i, ub, build, loopv>>

(* the outcome of the three subdivision checks, with the values each      *)
(* diagnostic prints; NoErr when all pass                                   *)
SubdivisionCheckNoMinusOne ==
  IF cols < 1 \/ rows < 1
    THEN MkErr("subdivision_count")
  ELSE IF cols > 1 /\ CMod(width, cols) # 0
    THEN [kind |-> "not_divisible", dim |-> "width",
          value |-> width, divisor |-> cols]
  ELSE IF rows > 1 /\ CMod(height, rows) # 0
    THEN [kind |-> "not_divisible", dim |-> "height",
          value |-> height, divisor |-> rows]
  ELSE NoErr

SubdivisionCheck ==
  IF cols < 1 \/ rows < 1
    THEN MkErr("subdivision_count")
  ELSE IF cols > 1 /\ CMod(width - 1, cols) # 0
    THEN [kind |-> "not_divisible", dim |-> "width",
          value |-> width, divisor |-> cols]
  ELSE IF rows > 1 /\ CMod(height - 1, rows) # 0
    THEN [kind |-> "not_divisible", dim |-> "height",
          value |-> height, divisor |-> rows]
  ELSE NoErr

(* Verify the subdivisions *)
VerifySubdivisions ==
  /\ pc = "verify_subdiv"
  /\ IF SubdivisionCheck # NoErr
       THEN Exit(1, SubdivisionCheck)
       ELSE /\ pc' = "verify_size"
            /\ UNCHANGED <<exit_code, err>>
  /\ UNCHANGED <<args, hgt_size, file, raster, scanv, i, ub, build, loopv>>

(* VerifySize with the raster allocated and read before the size is checked *)
VerifySizeAfterRead ==
  /\ pc = "verify_size"
  /\ raster' = [k \in 1..hgt_size |-> 0]
  /\ IF hgt_size # data_size
       THEN Exit(1, [kind |-> "size", dim |-> "none",
                     value |-> hgt_size, divisor |-> data_size])
       ELSE /\ pc' = "parse_name"
            /\ UNCHANGED <<exit_code, err>>
  /\ UNCHANGED <<args, hgt_size, file, scanv, i, ub, build, loopv>>

(* Verify the size of the HGT raster *)
VerifySize ==
  /\ pc = "verify_size"
  /\ IF hgt_size # data_size
       THEN Exit(1, [kind |-> "size", dim |-> "none",
                     value |-> hgt_size, divisor |-> data_size])
       ELSE /\ pc' = "parse_name"
            /\ UNCHANGED <<exit_code, err>>
  /\ UNCHANGED <<args, hgt_size, file, raster, scanv, i, ub, build, loopv>>

(* Extract and verify the raster coordinates of the file name *)
VerifyName ==
  /\ pc = "parse_name"
  /\ \E valid_hemi \in BOOLEAN :
       IF ~valid_hemi
         THEN Exit(1, MkErr("hemisphere"))
         ELSE /\ pc' = "read"
              /\ UNCHANGED <<exit_code, err>>
  /\ UNCHANGED <<args, hgt_size, file, raster, scanv, i, ub, build, loopv>>

(* Extract the raster into memory *)
ReadRaster ==
  /\ pc = "read"
  /\ \E p \in [1..PatLen -> SampleBytes], read_ok \in BOOLEAN :
       /\ file' = FileOf(p, pixel_count)
       /\ IF read_ok
            THEN /\ raster' = file'
                 /\ pc' = "swap_in"
                 /\ UNCHANGED <<exit_code, err>>
            ELSE /\ raster' = [k \in 1..data_size |-> 0]
                 /\ Exit(1, MkErr("read"))
  /\ UNCHANGED <<args, hgt_size, scanv, i, ub, build, loopv>>

(* Swap the byte order from Big to Little Endian *)
SwapIn ==
  /\ pc = "swap_in"
  /\ raster' = Normalize(little, raster)
  /\ pc' = "scan"
  /\ UNCHANGED <<args, hgt_size, exit_code, err, file, scanv, i, ub, build, loopv>>

(* accumulate the range of the raster *)
Scan ==
  /\ pc = "scan"
  /\ LET r == ScanLoop(little, raster, 0, ScanInit)
     IN  /\ minimum' = r.minimum
         /\ maximum' = r.maximum
         /\ invalid' = r.invalid
  /\ pc' = "rescale"
  /\ i' = 0
  /\ UNCHANGED <<args, hgt_size, exit_code, err, file, raster, ub, build, loopv>>

(* one iteration of the rescale loop *)
RescaleStep ==
  /\ pc = "rescale"
  /\ i < data_size
  /\ LET s == ToInt16(NativeU16(little, raster, i))
     IN  \E c \in RescaleSample(s, minimum, maximum) :
           /\ c.how \in {"exact", build} \/ build = "unset"
           /\ build' = IF c.how = "exact" THEN build ELSE c.how
           /\ raster' = StoreU16(little, raster, i, c.u)
           /\ ub' = ub \cup {c.how} \cup (IF c.dz THEN {"divzero"} ELSE {})
  /\ i' = i + SAMPLE_BYTES
  /\ pc' = IF i + SAMPLE_BYTES < data_size THEN "rescale" ELSE "swap_out"
  /\ UNCHANGED <<args, hgt_size, exit_code, err, file, scanv, loopv>>

(* Swap the byte order from Little to Big Endian *)
SwapOut ==
  /\ pc = "swap_out"
  /\ raster' = Normalize(little, raster)
  /\ pc' = "tiles"
  /\ UNCHANGED <<args, hgt_size, exit_code, err, file, scanv, i, ub, build, loopv>>

(* ---------------- Raster emitter ---------------- *)
(* Setup a vector of pointers to the beginning of each row: byte offsets    *)
(* relative to raster.data().  (col_offset - 1) * sizeof(std::uint16_t) is  *)
(* computed in size_t and wraps for col_offset = 0; added to the pointer it *)
(* addresses 2 bytes before the row start, i.e. offset -2 relative to it.   *)
RowPointer(row_abs, co) ==
  row_abs * width * SAMPLE_BYTES + (co - 1) * SAMPLE_BYTES

png_rows(ro, co) == [k \in 1..subheight |-> RowPointer(ro + (k - 1), co)]

(* the encoder reads subwidth samples from every row pointer *)
ViewInBounds(view) ==
  \A k \in 1..Len(view) :
    view[k] >= 0 /\ view[k] + subwidth * SAMPLE_BYTES <= Len(raster)

(* col_offset/row_offset stepping at the end of the loop bodies *)
NextColOffset(co) == co + (subheight - 1)
NextRowOffset(ro) == ro + (subwidth - 1)

(* the open check of the output file tests hgt_file, which is open here *)
OpenFailureDetected(open_ok) == FALSE

Advance ==
  IF col_index + 1 < cols
    THEN /\ col_index' = col_index + 1
         /\ col_offset' = NextColOffset(col_offset)
         /\ UNCHANGED <<row_index, row_offset, pc, exit_code, err>>
    ELSE /\ col_index' = 0
         /\ col_offset' = 0
         /\ row_index' = row_index + 1
         /\ row_offset' = NextRowOffset(row_offset)
         /\ IF row_index + 1 < rows
              THEN UNCHANGED <<pc, exit_code, err>>
              ELSE Exit(0, NoErr)

(* one iteration of the tile loop: encode the tile, write it to its file *)
EmitTile ==
  /\ pc = "tiles"
  /\ LET view == png_rows(row_offset, col_offset)
         tile == [row_offset |-> row_offset, col_offset |-> col_offset,
                  subwidth |-> subwidth, subheight |-> subheight,
                  png_rows |-> view]
         name == <<row_offset, col_offset>>
     IN  \/ (* reading outside the buffer may fault inside the encoder *)
            /\ ~ViewInBounds(view)
            /\ Exit(139, MkErr("crash"))
            /\ UNCHANGED <<row_index, col_index, row_offset, col_offset,
                           tiles, files, writes, null_writes>>
         \/ /\ tiles' = Append(tiles, tile)
            /\ \E open_ok \in BOOLEAN, write_ok \in BOOLEAN :
                 IF ~open_ok /\ OpenFailureDetected(open_ok)
                   THEN /\ Exit(1, MkErr("open_output"))
                        /\ UNCHANGED <<row_index, col_index, row_offset,
                                       col_offset, files, writes,
                                       null_writes>>
                 ELSE IF ~open_ok
                   THEN (* fwrite on a null stream: faults or returns 0 *)
                        /\ writes' = writes + 1
                        /\ null_writes' = null_writes + 1
                        /\ \/ Exit(139, MkErr("crash"))
                           \/ Exit(1, MkErr("write"))
                        /\ UNCHANGED <<row_index, col_index, row_offset,
                                       col_offset, files>>
                 ELSE /\ files' = files \cup {name}
                      /\ writes' = writes + 1
                      /\ UNCHANGED null_writes
                      /\ IF write_ok
                           THEN Advance
                           ELSE /\ Exit(1, MkErr("write"))
                                /\ UNCHANGED <<row_index, col_index,
                                               row_offset, col_offset>>
  /\ UNCHANGED <<args, hgt_size, file, raster, scanv, i, ub, build>>

Next ==
  \/ OpenInput
  \/ VerifySubdivisions
  \/ VerifySize
  \/ VerifyName
  \/ ReadRaster
  \/ SwapIn
  \/ Scan
  \/ RescaleStep
  \/ SwapOut
  \/ EmitTile

Spec == Init /\ [][Next]_vars

TypeOK ==
  /\ pc \in {"open", "verify_subdiv", "verify_size", "parse_name", "read",
             "swap_in", "scan", "rescale", "swap_out", "tiles", "exit"}
  /\ \A k \in 1..Len(raster) : raster[k] \in 0..255

(* ======================= properties ======================= *)
(* signed sample k (1-based) of the input file, big-endian *)
RawSample(k) == ToInt16(256 * file[2 * k - 1] + file[2 * k])

(* 16-bit pattern held by sample k while the raster is in native order *)
Rescaled(k) == NativeU16(little, raster, 2 * (k - 1))

Samples == 1..(Len(file) \div SAMPLE_BYTES)
Valid == {k \in Samples : RawSample(k) # SENTINEL}
TrueMin == CHOOSE v \in {RawSample(k) : k \in Valid} :
             \A k \in Valid : v <= RawSample(k)
TrueMax == CHOOSE v \in {RawSample(k) : k \in Valid} :
             \A k \in Valid : v >= RawSample(k)

Finished == pc = "exit" /\ exit_code = 0

(* C1: every accepted run emits exactly rows*cols tiles in row-major order, *)
(* each subwidth x subheight, the tile at tile-row r, tile-column c placed  *)
(* at row_offset = r*(subheight-1), col_offset = c*(subwidth-1).            *)
C1_TilePlan ==
  Finished =>
    /\ Len(tiles) = rows * cols
    /\ \A n \in 0..(rows * cols - 1) :
         LET t == tiles[n + 1]
         IN  /\ t.subwidth = (width \div cols) + (IF cols > 1 THEN 1 ELSE 0)
             /\ t.subheight = (height \div rows) + (IF rows > 1 THEN 1 ELSE 0)
             /\ t.row_offset = (n \div cols) * (t.subheight - 1)
             /\ t.col_offset = (n % cols) * (t.subwidth - 1)

(* the subdivision check has been passed or has failed *)
SubdivisionsChecked ==
  pc \notin {"open", "verify_subdiv"} /\ err.kind # "open_input"

Accepted ==
  /\ rows >= 1 /\ cols >= 1
  /\ (cols = 1 \/ (width - 1) % cols = 0)
  /\ (rows = 1 \/ (height - 1) % rows = 0)

ConfigurationError ==
  pc = "exit" /\ exit_code # 0
  /\ err.kind \in {"subdivision_count", "not_divisible"}

NamesFailingDimension ==
  \/ /\ err.dim = "width" /\ err.value = width /\ err.divisor = cols
     /\ (width - 1) % cols # 0
  \/ /\ err.dim = "height" /\ err.value = height /\ err.divisor = rows
     /\ (height - 1) % rows # 0

(* C2 as stated: the planner accepts exactly the valid subdivisions, and    *)
(* every rejection is a configuration error with non-zero exit status that  *)
(* names the failing dimension and its divisor, before any tile is emitted. *)
C2_Original ==
  SubdivisionsChecked =>
    IF Accepted
      THEN ~ConfigurationError
      ELSE ConfigurationError /\ NamesFailingDimension /\ tiles = <<>>

(* C2 amended: as above, but the failing dimension and divisor are named    *)
(* only when rows >= 1 and cols >= 1 (width checked before height); with    *)
(* rows < 1 or cols < 1 the error names no dimension and no divisor.        *)
C2_Validation ==
  SubdivisionsChecked =>
    IF Accepted
      THEN ~ConfigurationError
      ELSE /\ ConfigurationError
           /\ tiles = <<>>
           /\ IF rows >= 1 /\ cols >= 1
                THEN /\ NamesFailingDimension
                     /\ (cols > 1 /\ (width - 1) % cols # 0)
                          => err.dim = "width"
                ELSE err = MkErr("subdivision_count")

C2_Witness ==
  /\ ConfigurationError
  /\ err.dim = "width" /\ err.value = 2 /\ err.divisor = 2

(* C3: entry k of every emitted tile's row view addresses grid sample       *)
(* (row_offset + k, col_offset).                                            *)
C3_RowView ==
  \A n \in 1..Len(tiles) :
    LET t == tiles[n]
    IN  /\ Len(t.png_rows) = t.subheight
        /\ \A k \in 0..(t.subheight - 1) :
             t.png_rows[k + 1] =
               ((t.row_offset + k) * width + t.col_offset) * SAMPLE_BYTES

(* C4: after the scan of a grid with a non-sentinel sample,                 *)
(* maximum >= minimum.                                                      *)
C4_RangeOrdered ==
  (pc \in {"rescale", "swap_out", "tiles"} /\ Valid # {})
    => maximum >= minimum

(* C5: after the rescaler (16-bit store = truncation modulo 2^16) every     *)
(* sentinel sample holds 0xFFFF and no other sample does.                   *)
C5_SentinelEncoding ==
  (pc = "swap_out" /\ ub \subseteq {"exact", "wrap"}) =>
    \A k \in Samples : (RawSample(k) = SENTINEL) <=> (Rescaled(k) = MISSING)

(* C6: flat terrain rescales every non-sentinel sample to 0 without         *)
(* dividing by zero.                                                        *)
C6_FlatTerrain ==
  (pc = "swap_out" /\ Valid # {} /\ TrueMin = TrueMax) =>
    /\ "divzero" \notin ub
    /\ \A k \in Valid : Rescaled(k) = 0

RoundDiv(n, d) == (2 * n + d) \div (2 * d)

(* C7: with a non-degenerate range every non-sentinel sample is stored as   *)
(* round((raw - minimum) * 65534 / (maximum - minimum)), lies in 0..65534,  *)
(* the minimum sample as 0 and the maximum sample as 65534.                 *)
C7_AffineRounded ==
  (pc = "swap_out" /\ Valid # {} /\ TrueMax > TrueMin) =>
    \A k \in Valid :
      /\ Rescaled(k) \in 0..SCALE
      /\ Rescaled(k) = RoundDiv((RawSample(k) - TrueMin) * SCALE,
                                TrueMax - TrueMin)
      /\ RawSample(k) = TrueMin => Rescaled(k) = 0
      /\ RawSample(k) = TrueMax => Rescaled(k) = SCALE

(* C8: with a non-degenerate scanned range the rescaled value is            *)
(* non-decreasing in the raw sample.                                        *)
C8_Monotone ==
  (pc = "swap_out" /\ maximum > minimum) =>
    \A a \in Valid, b \in Valid :
      RawSample(a) <= RawSample(b) => Rescaled(a) <= Rescaled(b)

PairSwapped(a, b) ==
  /\ Len(a) = Len(b)
  /\ \A j \in 0..((Len(a) \div 2) - 1) :
       b[2 * j + 1] = a[2 * j + 2] /\ b[2 * j + 2] = a[2 * j + 1]

(* C9: normalising the byte order of the raster twice gives the raster      *)
(* back; on a little-endian host one pass swaps each byte pair (2i, 2i+1)   *)
(* and nothing else, on a big-endian host it changes nothing.               *)
C9_ByteOrderRoundTrip ==
  /\ Normalize(little, Normalize(little, raster)) = raster
  /\ little => PairSwapped(raster, Normalize(little, raster))
  /\ ~little => Normalize(little, raster) = raster
  /\ pc = "scan" => IF little THEN PairSwapped(file, raster)
                              ELSE raster = file

C9_Witness ==
  /\ pc = "tiles" /\ little
  /\ \E k \in 1..Len(raster) : Normalize(little, raster)[k] # raster[k]

(* C10: a run that ends with a configuration error or a size error has      *)
(* created no output file, written nothing and never read the grid.         *)
C10_EagerErrors ==
  (pc = "exit" /\ err.kind \in {"subdivision_count", "not_divisible", "size"})
    => /\ exit_code # 0
       /\ files = {} /\ writes = 0 /\ tiles = <<>>
       /\ raster = <<>> /\ file = <<>>

C10_Witness ==
  /\ pc = "exit" /\ err.kind = "size"
  /\ hgt_size # data_size /\ files = {}

(* the run ended by reporting a failure of an output stream *)
OutputIOError == pc = "exit" /\ err.kind \in {"open_output", "write"}

(* C11: a failed open or write of a tile's output stream is reported as an  *)
(* I/O error with non-zero exit status and stops the tile loop at once: no  *)
(* write is attempted on a stream that failed to open, the failed tile is   *)
(* the last one encoded, and the files of the earlier tiles stay in place.  *)
C11_OutputFailureAborts ==
  /\ null_writes = 0
  /\ OutputIOError =>
       /\ exit_code # 0
       /\ Len(tiles) = row_index * cols + col_index + 1
       /\ writes <= Len(tiles)
       /\ \A n \in 1..(Len(tiles) - 1) :
            <<tiles[n].row_offset, tiles[n].col_offset>> \in files

(* first grid column addressed by row k of tile t *)
FirstColumn(t, k) ==
  (t.png_rows[k] \div SAMPLE_BYTES) - (t.row_offset + (k - 1)) * width

(* C12: every emitted tile lies inside the grid: its rows and the columns   *)
(* its row view addresses are within the grid, every byte reachable through *)
(* the view is inside [0, width*height*2), and in a completed run the last  *)
(* tile ends exactly at grid row height-1 and grid column width-1.          *)
C12_TilesInBounds ==
  /\ \A n \in 1..Len(tiles) :
       LET t == tiles[n]
       IN  /\ 0 <= t.row_offset
           /\ t.row_offset + t.subheight <= height
           /\ \A k \in 1..Len(t.png_rows) :
                /\ 0 <= FirstColumn(t, k)
                /\ FirstColumn(t, k) + t.subwidth <= width
                /\ 0 <= t.png_rows[k]
                /\ t.png_rows[k] + t.subwidth * SAMPLE_BYTES
                     <= width * height * SAMPLE_BYTES
  /\ Finished =>
       LET t == tiles[Len(tiles)]
       IN  /\ t.row_offset + t.subheight - 1 = height - 1
           /\ FirstColumn(t, 1) + t.subwidth - 1 = width - 1
====
